---- MODULE Spec2Model ----
(***************************************************************************)
(* Codebase Time Machine: the history-indexing pipeline.                   *)
(*                                                                         *)
(* The model covers the SQLite store (db.py), GitIndexer.index()           *)
(* (git_indexer.py) and compute_ownership() (analysis.py).  The version    *)
(* control system and the complexity analyzer are collaborators: a         *)
(* repository is a sequence of commit records, each with its diff entries  *)
(* and its per-path stats, and the analyzer is a function of the path.     *)
(*                                                                         *)
(* SQLite behaviour the code depends on is modelled as SQLite implements   *)
(* it: rowids, sqlite3_last_insert_rowid() per connection, AUTOINCREMENT   *)
(* through sqlite_sequence, INSERT OR IGNORE / OR REPLACE, and the         *)
(* per-connection foreign_keys pragma.                                     *)
(***************************************************************************)
EXTENDS Integers, Sequences, FiniteSets, TLC

VARIABLES
    repo,      \* the repository: commit records, oldest first
    db,        \* the store file as the running process sees it: one field per table
    pc,        \* position of the tool process: "idle", "diff", "flush", "own_insert"
    ix,        \* locals of the running index(): commits, position, buffers, connection
    thr,       \* flush thresholds of the three row buffers
    runs,      \* number of index() runs started
    own,       \* bookkeeping of compute_ownership: table before the run, status, last result
    seen,      \* what the concurrent reader last read from the ownership table
    lizard,    \* whether "from lizard import analyze_file" succeeds in the tool process
    exit       \* how the latest index command ended: "none", "ok", "error", "killed"

vars == <<repo, db, pc, ix, thr, runs, own, seen, lizard, exit>>

----------------------------------------------------------------------------
(* Bounds of the model *)

MaxCommits == 2
MaxRuns == 2

----------------------------------------------------------------------------
(* Helpers on sequences and sets *)

Range(s) == {s[i] : i \in DOMAIN s}

RECURSIVE SumSeq(_)
SumSeq(s) == IF s = <<>> THEN 0 ELSE Head(s) + SumSeq(Tail(s))

MinSet(S) == CHOOSE x \in S : \A y \in S : x <= y
MaxSet(S) == CHOOSE x \in S : \A y \in S : x >= y

Reverse(s) == [i \in 1..Len(s) |-> s[Len(s) + 1 - i]]

----------------------------------------------------------------------------
(* The collaborators' data *)

NoPath == "None"          \* Python None as a path
NoBlob == "None"          \* Python None as a blob
Paths == {"a", "b"}
Authors == {"x@", "y@"}
Hashes == <<"c1", "c2", "c3", "c4">>

\* d.b_blob.is_binary
is_binary_blob(blob) == blob = "binary"

\* c.stats.files of a commit that reports every path, and of one that reports none
FullStats == [p \in Paths |-> IF p = "a" THEN [insertions |-> 1, deletions |-> 2]
                                        ELSE [insertions |-> 3, deletions |-> 4]]
EmptyStats == [p \in {} |-> [insertions |-> 0, deletions |-> 0]]
\* c.stats.files of a commit that reports path a only
StatsOfA == [p \in {"a"} |-> FullStats[p]]

----------------------------------------------------------------------------
(* db.py: the store *)

\* SCHEMA_SQL before init_db has run: no table exists
EmptyStore ==
    [ initialized  |-> FALSE,
      repo_meta    |-> {},
      commits      |-> <<>>,     \* rowid = position (rows are never deleted)
      files        |-> <<>>,     \* rows [id, path], in insertion order
      files_seq    |-> 0,        \* sqlite_sequence entry of the AUTOINCREMENT id
      commit_files |-> <<>>,     \* rowid = position
      features     |-> <<>>,     \* rowid = position
      complexity   |-> <<>>,     \* rows carry their rowid, ascending
      ownership    |-> {} ]

\* connect(): a new connection; foreign_keys is OFF until the pragma runs on it,
\* and sqlite3_last_insert_rowid() is 0 until the connection inserts a row
connect == [last_insert_rowid |-> 0, foreign_keys |-> FALSE]

\* init_db(conn): executescript(SCHEMA_SQL) creates the tables if absent and
\* switches foreign_keys ON for this connection only
init_db(d, conn) ==
    [db |-> [d EXCEPT !.initialized = TRUE],
     conn |-> [conn EXCEPT !.foreign_keys = TRUE]]

\* set_meta(conn, key, value): upsert of one key, committed
set_meta(d, key, value) ==
    [d EXCEPT !.repo_meta = {m \in @ : m.key # key} \cup {[key |-> key, value |-> value]}]

\* get_meta(conn, key)
get_meta(d, key) ==
    IF \E m \in d.repo_meta : m.key = key
    THEN (CHOOSE m \in d.repo_meta : m.key = key).value
    ELSE "None"

CommitIds(d) == {d.commits[i].id : i \in DOMAIN d.commits}
FileIds(d) == {d.files[i].id : i \in DOMAIN d.files}

\* SELECT id FROM files WHERE path=?  (a NULL path matches no row)
select_file_id(d, path) ==
    LET hits == {i \in DOMAIN d.files : path # NoPath /\ d.files[i].path = path}
    IN IF hits = {} THEN 0 ELSE d.files[CHOOSE i \in hits : TRUE].id

\* upsert_file(conn, path).  INSERT OR IGNORE allocates the next AUTOINCREMENT
\* id before the UNIQUE check, so sqlite_sequence advances even when the row
\* is ignored.  cur.lastrowid is sqlite3_last_insert_rowid() of the
\* connection: the rowid of the latest row this connection inserted into any
\* table, unchanged by an ignored insert.
upsert_file(d, conn, path) ==
    LET present == select_file_id(d, path) # 0
        newid == d.files_seq + 1
        d1 == IF present
              THEN [d EXCEPT !.files_seq = newid]
              ELSE [d EXCEPT !.files_seq = newid,
                             !.files = Append(@, [id |-> newid, path |-> path])]
        conn1 == IF present THEN conn ELSE [conn EXCEPT !.last_insert_rowid = newid]
        lastrowid == conn1.last_insert_rowid
    IN [db |-> d1, conn |-> conn1,
        id |-> IF lastrowid # 0 THEN lastrowid ELSE select_file_id(d1, path)]

\* a row that names a commit or a file the store does not have
DanglingCommit(d, r) == r.commit_id \notin CommitIds(d)
DanglingFile(d, r) == r.file_id \notin FileIds(d)

\* bulk_insert_commits with INSERT in place of INSERT OR IGNORE and no primary
\* key to stop the duplicate
RECURSIVE bulk_insert_commits_plain(_, _, _)
bulk_insert_commits_plain(d, conn, rows) ==
    IF rows = <<>> THEN [ok |-> TRUE, db |-> d, conn |-> conn]
    ELSE LET d1 == [d EXCEPT !.commits = Append(@, Head(rows))]
             c1 == [conn EXCEPT !.last_insert_rowid = Len(d1.commits)]
         IN bulk_insert_commits_plain(d1, c1, Tail(rows))

\* bulk_insert_commits(conn, rows): INSERT OR IGNORE on the primary key id
RECURSIVE bulk_insert_commits(_, _, _)
bulk_insert_commits(d, conn, rows) ==
    IF rows = <<>> THEN [ok |-> TRUE, db |-> d, conn |-> conn]
    ELSE LET r == Head(rows)
             dup == r.id \in CommitIds(d)
             d1 == IF dup THEN d ELSE [d EXCEPT !.commits = Append(@, r)]
             c1 == IF dup THEN conn ELSE [conn EXCEPT !.last_insert_rowid = Len(d1.commits)]
         IN bulk_insert_commits(d1, c1, Tail(rows))

\* bulk_insert_commit_files that skips a row the table already holds
bulk_insert_commit_files_dedup(d, conn, rows) ==
    LET fresh == SelectSeq(rows, LAMBDA r : r \notin Range(d.commit_files))
        d1 == [d EXCEPT !.commit_files = @ \o fresh]
    IN [ok |-> TRUE, db |-> d1,
        conn |-> IF fresh = <<>> THEN conn
                 ELSE [conn EXCEPT !.last_insert_rowid = Len(d1.commit_files)]]

\* bulk_insert_commit_files(conn, rows): plain INSERT of every row; with
\* foreign_keys ON a row with an unknown commit or file raises IntegrityError
bulk_insert_commit_files(d, conn, rows) ==
    IF conn.foreign_keys /\ \E i \in DOMAIN rows : DanglingCommit(d, rows[i]) \/ DanglingFile(d, rows[i])
    THEN [ok |-> FALSE, db |-> d, conn |-> conn]
    ELSE LET d1 == [d EXCEPT !.commit_files = @ \o rows]
         IN [ok |-> TRUE, db |-> d1,
             conn |-> IF rows = <<>> THEN conn
                      ELSE [conn EXCEPT !.last_insert_rowid = Len(d1.commit_files)]]

\* bulk_insert_features(conn, rows): plain INSERT of every row
bulk_insert_features(d, conn, rows) ==
    IF conn.foreign_keys /\ \E i \in DOMAIN rows : DanglingCommit(d, rows[i])
    THEN [ok |-> FALSE, db |-> d, conn |-> conn]
    ELSE LET d1 == [d EXCEPT !.features = @ \o rows]
         IN [ok |-> TRUE, db |-> d1,
             conn |-> IF rows = <<>> THEN conn
                      ELSE [conn EXCEPT !.last_insert_rowid = Len(d1.features)]]

\* INSERT OR REPLACE of one complexity row: the new row gets max(rowid) + 1,
\* allocated before the row with the same (file_id, commit_id) is deleted
replace_complexity(cx, r) ==
    LET kept == SelectSeq(cx, LAMBDA x : ~(x.file_id = r.file_id /\ x.commit_id = r.commit_id))
        rowid == IF cx = <<>> THEN 1 ELSE cx[Len(cx)].rowid + 1
    IN Append(kept, [rowid |-> rowid, file_id |-> r.file_id, commit_id |-> r.commit_id,
                     nloc |-> r.nloc, ccn |-> r.ccn, functions |-> r.functions])

RECURSIVE insert_complexity_rows(_, _)
insert_complexity_rows(cx, rows) ==
    IF rows = <<>> THEN cx
    ELSE insert_complexity_rows(replace_complexity(cx, Head(rows)), Tail(rows))

\* bulk_insert_complexity(conn, rows)
bulk_insert_complexity(d, conn, rows) ==
    IF conn.foreign_keys /\ \E i \in DOMAIN rows : DanglingCommit(d, rows[i]) \/ DanglingFile(d, rows[i])
    THEN [ok |-> FALSE, db |-> d, conn |-> conn]
    ELSE LET cx == insert_complexity_rows(d.complexity, rows)
         IN [ok |-> TRUE, db |-> [d EXCEPT !.complexity = cx],
             conn |-> IF rows = <<>> THEN conn
                      ELSE [conn EXCEPT !.last_insert_rowid = cx[Len(cx)].rowid]]

----------------------------------------------------------------------------
(* git_indexer.py: GitIndexer.index() *)

\* A commit message is a sequence of characters.
UpperCase == <<"A", "B", "C", "D", "E", "F", "G", "H", "I", "J", "K", "L", "M",
               "N", "O", "P", "Q", "R", "S", "T", "U", "V", "W", "X", "Y", "Z">>
LowerCase == <<"a", "b", "c", "d", "e", "f", "g", "h", "i", "j", "k", "l", "m",
               "n", "o", "p", "q", "r", "s", "t", "u", "v", "w", "x", "y", "z">>
Upper == Range(UpperCase)                                     \* [A-Z]
Digit == {"0", "1", "2", "3", "4", "5", "6", "7", "8", "9"}   \* \d
Space == {" "}                                                \* \s

\* str.lower(), of one character and of a text
lower_char(ch) ==
    IF ch \in Upper THEN LowerCase[CHOOSE i \in DOMAIN UpperCase : UpperCase[i] = ch] ELSE ch
lower(text) == [i \in DOMAIN text |-> lower_char(text[i])]

\* FEATURE_PATTERNS, by position: 1 = fixes #num, 2 = closes #num, 3 = JIRA-style id
FEATURE_PATTERNS == <<"fixe?s?\\s+#(?P<num>\\d+)", "close[sd]?\\s+#(?P<num>\\d+)", "(?P<jira>[A-Z][A-Z0-9]+-\\d+)">>

\* WHY_KEYWORDS
WHY_KEYWORDS ==
    <<(<<"w", "h", "y">>), <<"b", "e", "c", "a", "u", "s", "e">>, <<"r", "e", "a", "s", "o", "n">>,
      <<"m", "o", "t", "i", "v", "a", "t", "i", "o", "n">>, <<"r", "f", "c">>,
      <<"d", "e", "s", "i", "g", "n">>, <<"i", "n", "t", "r", "o", "d", "u", "c">>,
      <<"d", "e", "c", "i", "s", "i", "o", "n">>>>

\* the regex engine on a text, positions from 1.  Each piece returns the
\* position after what it consumed, or 0 when it does not match.
\* a literal, compared without case (re.I)
literal(text, i, lit) ==
    IF i + Len(lit) - 1 <= Len(text) /\ \A k \in DOMAIN lit : lower_char(text[i + k - 1]) = lit[k]
    THEN i + Len(lit) ELSE 0

\* x? for a character class, compared without case
optional(text, i, class) ==
    IF i <= Len(text) /\ lower_char(text[i]) \in class THEN i + 1 ELSE i

\* x* for a character class, greedy: the position of the first character not in it
RECURSIVE star(_, _, _)
star(text, i, class) ==
    IF i <= Len(text) /\ text[i] \in class THEN star(text, i + 1, class) ELSE i

\* x+ for a character class, greedy
plus(text, i, class) ==
    IF i <= Len(text) /\ text[i] \in class THEN star(text, i + 1, class) ELSE 0

\* one character
char(text, i, ch) == IF i <= Len(text) /\ text[i] = ch THEN i + 1 ELSE 0

\* \s+#(?P<num>\d+) from position i: the match object, or the position 0.
\* No piece of the three patterns has a second way to match that the engine
\* would backtrack to: what follows a greedy piece is never in its class.
issue_tail(text, start, i) ==
    LET j1 == IF i = 0 THEN 0 ELSE plus(text, i, Space)
        j2 == IF j1 = 0 THEN 0 ELSE char(text, j1, "#")
        j3 == IF j2 = 0 THEN 0 ELSE plus(text, j2, Digit)
    IN IF j3 = 0 THEN [end |-> 0]
       ELSE [end |-> j3, group0 |-> SubSeq(text, start, j3 - 1),
             groupdict |-> [g \in {"num"} |-> SubSeq(text, j2, j3 - 1)]]

\* pat.match at position i, for the pattern at position k of FEATURE_PATTERNS
match_at(k, text, i) ==
    IF k = 1 THEN
        LET j == literal(text, i, <<"f", "i", "x">>)
        IN issue_tail(text, i, IF j = 0 THEN 0 ELSE optional(text, optional(text, j, {"e"}), {"s"}))
    ELSE IF k = 2 THEN
        LET j == literal(text, i, <<"c", "l", "o", "s", "e">>)
        IN issue_tail(text, i, IF j = 0 THEN 0 ELSE optional(text, j, {"s", "d"}))
    ELSE
        LET j1 == IF i <= Len(text) /\ text[i] \in Upper THEN i + 1 ELSE 0
            j2 == IF j1 = 0 THEN 0 ELSE plus(text, j1, Upper \cup Digit)
            j3 == IF j2 = 0 THEN 0 ELSE char(text, j2, "-")
            j4 == IF j3 = 0 THEN 0 ELSE plus(text, j3, Digit)
        IN IF j4 = 0 THEN [end |-> 0]
           ELSE [end |-> j4, group0 |-> SubSeq(text, i, j4 - 1),
                 groupdict |-> [g \in {"jira"} |-> SubSeq(text, i, j4 - 1)]]

\* pat.finditer(text) from position i: the matches, leftmost first, not overlapping
finditer(k, text, i) ==
    LET from[p \in 1..(Len(text) + 1)] ==
            IF p > Len(text) THEN <<>>
            ELSE LET m == match_at(k, text, p)
                 IN IF m.end = 0 THEN from[p + 1]
                    ELSE <<m>> \o from[m.end]
    IN from[i]

\* m.groupdict().get(name): None (here the empty text) for a group the pattern lacks
groupdict_get(m, name) == IF name \in DOMAIN m.groupdict THEN m.groupdict[name] ELSE <<>>

\* ref = m.groupdict().get("num") or m.groupdict().get("jira") or m.group(0)
feature_ref(m) ==
    IF groupdict_get(m, "num") # <<>> THEN groupdict_get(m, "num")
    ELSE IF groupdict_get(m, "jira") # <<>> THEN groupdict_get(m, "jira")
    ELSE m.group0

\* k in text, for texts as character sequences
contains(text, k) ==
    \E i \in 1..(Len(text) - Len(k) + 1) : SubSeq(text, i, i + Len(k) - 1) = k

\* for pat in FEATURE_PATTERNS: for m in pat.finditer(message): one row per match
RECURSIVE pattern_rows(_, _, _)
pattern_rows(hexsha, message, k) ==
    IF k > Len(FEATURE_PATTERNS) THEN <<>>
    ELSE LET hits == finditer(k, message, 1)
         IN [i \in 1..Len(hits) |->
                [commit_id |-> hexsha, type |-> FEATURE_PATTERNS[k], reference |-> feature_ref(hits[i])]]
            \o pattern_rows(hexsha, message, k + 1)

\* any(k in message.lower() for k in WHY_KEYWORDS)
has_why_keyword(message) ==
    \E n \in DOMAIN WHY_KEYWORDS : contains(lower(message), WHY_KEYWORDS[n])

\* the messages of the repositories' commits
\* (empty)
MsgNone == <<>>
\* Fixes #42 because
MsgFixesBecause ==
    <<"F", "i", "x", "e", "s", " ", "#", "4", "2", " ", "b", "e", "c", "a", "u", "s",
    "e">>
\* Fixes #42 - add login throttle
MsgScenario ==
    <<"F", "i", "x", "e", "s", " ", "#", "4", "2", " ", "-", " ", "a", "d", "d", " ",
    "l", "o", "g", "i", "n", " ", "t", "h", "r", "o", "t", "t", "l", "e">>
\* fix #1 closed #2
MsgTwoIssues == <<"f", "i", "x", " ", "#", "1", " ", "c", "l", "o", "s", "e", "d", " ", "#", "2">>
\* ABC-1 ABC-1
MsgJiraTwice == <<"A", "B", "C", "-", "1", " ", "A", "B", "C", "-", "1">>
\* RFC-12 why why
MsgRfcWhyWhy == <<"R", "F", "C", "-", "1", "2", " ", "w", "h", "y", " ", "w", "h", "y">>
\* Design decision
MsgDesign == <<"D", "e", "s", "i", "g", "n", " ", "d", "e", "c", "i", "s", "i", "o", "n">>
\* prefixes  #7
MsgPrefixes == <<"p", "r", "e", "f", "i", "x", "e", "s", " ", " ", "#", "7">>
\* refactor
MsgPlain == <<"r", "e", "f", "a", "c", "t", "o", "r">>
\* fixes 42 A-1
MsgNearMiss == <<"f", "i", "x", "e", "s", " ", "4", "2", " ", "A", "-", "1">>

Messages == {MsgNone, MsgFixesBecause, MsgScenario, MsgTwoIssues, MsgJiraTwice, MsgRfcWhyWhy, MsgDesign, MsgPrefixes, MsgPlain, MsgNearMiss}

\* the feature rows of a commit with hash hexsha and this message: pattern
\* matches, then at most one why_marker
message_rows(hexsha, message) ==
    pattern_rows(hexsha, message, 1)
    \o (IF has_why_keyword(message)
        THEN <<[commit_id |-> hexsha, type |-> "why_marker", reference |-> <<"1">>]>>
        ELSE <<>>)

\* the scan of every message of Messages, computed once
scanned == [m \in Messages |-> message_rows("", m)]

\* feature_rows with one why_marker row per keyword the message contains
feature_rows_per_keyword(c) ==
    LET found == SelectSeq(WHY_KEYWORDS, LAMBDA k : contains(lower(c.message), k))
    IN pattern_rows(c.hexsha, c.message, 1)
       \o [i \in DOMAIN found |-> [commit_id |-> c.hexsha, type |-> "why_marker", reference |-> <<"1">>]]

\* the feature rows of one commit
feature_rows(c) ==
    IF c.message \in Messages
    THEN [i \in DOMAIN scanned[c.message] |-> [scanned[c.message][i] EXCEPT !.commit_id = c.hexsha]]
    ELSE message_rows(c.hexsha, c.message)

\* what a call returns: None, a result object, or an exception raised
None == [kind |-> "None"]
Raised == [kind |-> "raise"]

\* d.b_blob.data_stream.read().decode(errors='ignore'): the text of the blob,
\* or an exception when the object cannot be read
data_stream_read(blob) ==
    IF blob = "unreadable" THEN Raised ELSE [kind |-> "code", code |-> blob]

\* analyze_code_string(file_path, code).  With lizard installed (lz) it is
\* analyze_file.analyze_source_code: the analysis of the text, function_list
\* holding the cyclomatic complexity of each function, or an exception on a
\* text the analyzer fails on.  Without lizard it is the stub returning None.
analyze_code_string(lz, path, code) ==
    IF ~lz THEN None
    ELSE IF code = "unparsable" THEN Raised
    ELSE IF path = "a" THEN [kind |-> "result", nloc |-> 10, function_list |-> <<1, 2>>]
    ELSE [kind |-> "result", nloc |-> 20, function_list |-> <<3>>]

\* path_eff without the deletion case
path_eff_new(e) == e.b_path

\* path_eff = new_path if change_type != 'D' else old_path
path_eff(e) == IF e.change_type # "D" THEN e.b_path ELSE e.a_path

\* c.stats.files.get(path_eff, {"insertions": 0, "deletions": 0})
stats_get(c, path) ==
    IF path \in DOMAIN c.stats THEN c.stats[path] ELSE [insertions |-> 0, deletions |-> 0]

\* is_binary = 1 if d.b_blob is not None and d.b_blob.is_binary else 0
is_binary(e) == IF e.b_blob # NoBlob /\ is_binary_blob(e.b_blob) THEN 1 ELSE 0

\* the guard of the complexity block; "analyze_code_string is not None" holds
\* with and without lizard, since both branches of the import define it
wants_complexity(e) ==
    e.change_type # "D" /\ e.b_blob # NoBlob /\ ~is_binary_blob(e.b_blob)

\* the body of "for d in diffs": one diff entry of commit c.
\* st = [db, conn, lizard, rows_commit_files, rows_complex]
index_entry(st, c, e) ==
    LET p == path_eff(e)
        stats == stats_get(c, p)
        u == upsert_file(st.db, st.conn, p)
        row == [commit_id |-> c.hexsha, file_id |-> u.id,
                additions |-> stats.insertions, deletions |-> stats.deletions,
                change_type |-> e.change_type, old_path |-> e.a_path, new_path |-> e.b_path,
                is_binary |-> is_binary(e)]
        code == data_stream_read(e.b_blob)
        result == IF code.kind = "raise" THEN Raised
                  ELSE analyze_code_string(st.lizard, p, code.code)
        cxrow == [file_id |-> u.id, commit_id |-> c.hexsha, nloc |-> result.nloc,
                  ccn |-> SumSeq(result.function_list), functions |-> Len(result.function_list)]
    IN [db |-> u.db, conn |-> u.conn, lizard |-> st.lizard,
        rows_commit_files |-> Append(st.rows_commit_files, row),
        rows_complex |-> IF wants_complexity(e) /\ result.kind = "result"
                         THEN Append(st.rows_complex, cxrow)
                         ELSE st.rows_complex]

RECURSIVE index_entries(_, _, _)
index_entries(st, c, diffs) ==
    IF diffs = <<>> THEN st
    ELSE index_entries(index_entry(st, c, Head(diffs)), c, Tail(diffs))

\* "Flush periodically": a buffer that has reached its threshold is written,
\* cleared and committed; conn.commit() commits everything the connection has
\* written since its last commit, the files rows of upsert_file included.
\* x = [ok, db, conn, lizard, commits, i, rows_commit_files, rows_complex,
\*      rows_features, committed, start, log]:
\*   committed  the store as of the latest conn.commit()
\*   start      the size of the tables when the diff pass began
\*   log        every row the diff pass has appended to each buffer
\* flush_commit_files without rows_commit_files.clear()
flush_commit_files_keep(x, limit, final) ==
    IF ~x.ok \/ (IF final THEN x.rows_commit_files = <<>> ELSE Len(x.rows_commit_files) < limit) THEN x
    ELSE LET r == bulk_insert_commit_files(x.db, x.conn, x.rows_commit_files)
         IN [x EXCEPT !.ok = r.ok, !.db = r.db, !.conn = r.conn,
                      !.committed = IF r.ok THEN r.db ELSE @]

flush_commit_files(x, limit, final) ==
    IF ~x.ok \/ (IF final THEN x.rows_commit_files = <<>> ELSE Len(x.rows_commit_files) < limit) THEN x
    ELSE LET r == bulk_insert_commit_files(x.db, x.conn, x.rows_commit_files)
         IN [x EXCEPT !.ok = r.ok, !.db = r.db, !.conn = r.conn,
                      !.rows_commit_files = IF r.ok /\ ~final THEN <<>> ELSE @,
                      !.committed = IF r.ok THEN r.db ELSE @]

flush_complex(x, limit, final) ==
    IF ~x.ok \/ (IF final THEN x.rows_complex = <<>> ELSE Len(x.rows_complex) < limit) THEN x
    ELSE LET r == bulk_insert_complexity(x.db, x.conn, x.rows_complex)
         IN [x EXCEPT !.ok = r.ok, !.db = r.db, !.conn = r.conn,
                      !.rows_complex = IF r.ok /\ ~final THEN <<>> ELSE @,
                      !.committed = IF r.ok THEN r.db ELSE @]

flush_features(x, limit, final) ==
    IF ~x.ok \/ (IF final THEN x.rows_features = <<>> ELSE Len(x.rows_features) < limit) THEN x
    ELSE LET r == bulk_insert_features(x.db, x.conn, x.rows_features)
         IN [x EXCEPT !.ok = r.ok, !.db = r.db, !.conn = r.conn,
                      !.rows_features = IF r.ok /\ ~final THEN <<>> ELSE @,
                      !.committed = IF r.ok THEN r.db ELSE @]

\* the three flushes, in the order of the code
flush_all(x, t, final) ==
    flush_features(flush_complex(flush_commit_files(x, t.commit_files, final), t.complex, final),
                   t.features, final)

\* the committed stores the three flushes pass through: what the store file
\* holds if the process is killed before, between or after them
flush_points(x, t, final) ==
    LET x1 == flush_commit_files(x, t.commit_files, final)
        x2 == flush_complex(x1, t.complex, final)
        x3 == flush_features(x2, t.features, final)
    IN {x.committed, x1.committed, x2.committed, x3.committed}

\* self.repo.iter_commits("--all"): newest commit first
iter_commits(rp) == Reverse(rp)

\* the log of a diff pass that has appended no row
NoLog == [rows_commit_files |-> <<>>, rows_complex |-> <<>>, rows_features |-> <<>>]

\* index(), from connect() to set_meta: both init_db and set_meta commit
index_open(d) == set_meta(init_db(d, connect).db, "repo_dir", "repo")

\* index(), from connect() to the commit of the metadata pass
index_begin(d, rp, lz) ==
    LET d1 == index_open(d)
        commits == iter_commits(rp)
        rows_commits == [i \in 1..Len(commits) |->
                            [id |-> commits[i].hexsha, author_name |-> commits[i].author_name,
                             author_email |-> commits[i].author_email,
                             authored_date |-> commits[i].authored_date, message |-> commits[i].message]]
        r == bulk_insert_commits(d1, connect, rows_commits)
    IN [ok |-> r.ok, db |-> r.db, conn |-> r.conn, lizard |-> lz, commits |-> commits, i |-> 1,
        rows_commit_files |-> <<>>, rows_complex |-> <<>>, rows_features |-> <<>>,
        committed |-> r.db,
        start |-> [commit_files |-> Len(r.db.commit_files), features |-> Len(r.db.features),
                   complexity |-> r.db.complexity],
        log |-> NoLog]

\* the rows of buffer after that were not in buffer before
appended(before, after) == SubSeq(after, Len(before) + 1, Len(after))

\* the locals after one commit of the diff pass: st is what the loop over its
\* diff entries left, fr its feature rows
next_commit(x, st, fr) ==
    [x EXCEPT !.db = st.db, !.conn = st.conn, !.i = @ + 1,
              !.rows_commit_files = st.rows_commit_files,
              !.rows_complex = st.rows_complex,
              !.rows_features = @ \o fr,
              !.log = [rows_commit_files |-> @.rows_commit_files
                                             \o appended(x.rows_commit_files, st.rows_commit_files),
                       rows_complex |-> @.rows_complex
                                        \o appended(x.rows_complex, st.rows_complex),
                       rows_features |-> @.rows_features \o fr]]

\* one iteration of "for c in commits" of the diff pass, up to the flushes:
\* the diff entries, then the feature rows
index_diff(x) ==
    LET c == x.commits[x.i]
    IN next_commit(x,
                   index_entries([db |-> x.db, conn |-> x.conn, lizard |-> x.lizard,
                                  rows_commit_files |-> x.rows_commit_files,
                                  rows_complex |-> x.rows_complex], c, c.diffs),
                   feature_rows(c))

\* one iteration of "for c in commits" of the diff pass, with its periodic flushes
index_commit(x, t) == flush_all(index_diff(x), t, FALSE)

\* "Final flush": every non-empty buffer is written and committed
index_final(x, t) == flush_all(x, t, TRUE)

\* index() from start to end on store d
RECURSIVE index_rest(_, _)
index_rest(x, t) ==
    IF ~x.ok THEN x
    ELSE IF x.i > Len(x.commits) THEN index_final(x, t)
    ELSE index_rest(index_commit(x, t), t)

index(d, rp, t, lz) == index_rest(index_begin(d, rp, lz), t)

----------------------------------------------------------------------------
(* analysis.py: compute_ownership() *)

\* the commits row a change row joins to (commits.id is the primary key)
commit_of(d, cf) == CHOOSE c \in Range(d.commits) : c.id = cf.commit_id

\* ownership_select with COUNT(cf.commit_id) in place of COUNT(DISTINCT cf.commit_id)
ownership_select_count_all(d) ==
    LET joined == SelectSeq(d.commit_files, LAMBDA cf : cf.commit_id \in CommitIds(d))
        groups == {<<joined[i].file_id, commit_of(d, joined[i]).author_email>> : i \in DOMAIN joined}
        rows(g) == SelectSeq(joined, LAMBDA cf : cf.file_id = g[1] /\ commit_of(d, cf).author_email = g[2])
        dates(g) == {commit_of(d, rows(g)[i]).authored_date : i \in DOMAIN rows(g)}
    IN {[file_id       |-> g[1],
         author_email  |-> g[2],
         commits       |-> Len(rows(g)),
         lines_added   |-> SumSeq([i \in DOMAIN rows(g) |-> rows(g)[i].additions]),
         lines_deleted |-> SumSeq([i \in DOMAIN rows(g) |-> rows(g)[i].deletions]),
         first_commit  |-> MinSet(dates(g)),
         last_commit   |-> MaxSet(dates(g))] : g \in groups}

\* SELECT ... FROM commit_files cf JOIN commits c ON c.id = cf.commit_id
\* GROUP BY cf.file_id, c.author_email
ownership_select(d) ==
    LET joined == SelectSeq(d.commit_files, LAMBDA cf : cf.commit_id \in CommitIds(d))
        groups == {<<joined[i].file_id, commit_of(d, joined[i]).author_email>> : i \in DOMAIN joined}
        rows(g) == SelectSeq(joined, LAMBDA cf : cf.file_id = g[1] /\ commit_of(d, cf).author_email = g[2])
        dates(g) == {commit_of(d, rows(g)[i]).authored_date : i \in DOMAIN rows(g)}
    IN {[file_id       |-> g[1],
         author_email  |-> g[2],
         commits       |-> Cardinality({rows(g)[i].commit_id : i \in DOMAIN rows(g)}),
         lines_added   |-> SumSeq([i \in DOMAIN rows(g) |-> rows(g)[i].additions]),
         lines_deleted |-> SumSeq([i \in DOMAIN rows(g) |-> rows(g)[i].deletions]),
         first_commit  |-> MinSet(dates(g)),
         last_commit   |-> MaxSet(dates(g))] : g \in groups}

\* compute_ownership without its DELETE FROM ownership
ownership_delete_nothing(d) == d

\* conn.execute("DELETE FROM ownership"); conn.commit()
ownership_delete(d) == [d EXCEPT !.ownership = {}]

\* conn.execute("INSERT INTO ownership ... SELECT ..."); conn.commit()
ownership_insert(d) == [d EXCEPT !.ownership = @ \cup ownership_select(d)]

\* compute_ownership(db_path) from start to end
compute_ownership(d) == ownership_insert(ownership_delete(d))

----------------------------------------------------------------------------
(* The repositories the model draws commits from *)

Mod(p, blob) == [change_type |-> "M", a_path |-> p, b_path |-> p, b_blob |-> blob]
Add(p, blob) == [change_type |-> "A", a_path |-> p, b_path |-> p, b_blob |-> blob]
Del(p) == [change_type |-> "D", a_path |-> p, b_path |-> NoPath, b_blob |-> NoBlob]
Ren(q, p) == [change_type |-> "R", a_path |-> q, b_path |-> p, b_blob |-> "text"]

\* diffs of text modifications: one path, or both paths in either order
TextDiffs ==
    {<<Mod(p, "text")>> : p \in Paths}
    \cup {<<Mod(pq[1], "text"), Mod(pq[2], "text")>> : pq \in {x \in Paths \X Paths : x[1] # x[2]}}

\* commit templates: what a new commit may be, but for its hash and date
CommitPool ==
    [author : Authors, message : {MsgFixesBecause}, diffs : TextDiffs, stats : {FullStats}]

\* the commit a template becomes as the n-th commit of the repository
MakeCommit(t, n) ==
    [hexsha |-> Hashes[n], author_name |-> t.author, author_email |-> t.author,
     authored_date |-> 100 + n, message |-> t.message, diffs |-> t.diffs, stats |-> t.stats]

----------------------------------------------------------------------------
(* The state machine *)

\* the thresholds of "Flush periodically"
CodeThresholds == [commit_files |-> 1000, complex |-> 500, features |-> 1000]

NoRun == [conn |-> connect, commits |-> <<>>, i |-> 0,
          rows_commit_files |-> <<>>, rows_complex |-> <<>>, rows_features |-> <<>>,
          committed |-> EmptyStore,
          start |-> [commit_files |-> 0, features |-> 0, complexity |-> <<>>],
          log |-> NoLog]

Locals(x) == [conn |-> x.conn, commits |-> x.commits, i |-> x.i,
              rows_commit_files |-> x.rows_commit_files, rows_complex |-> x.rows_complex,
              rows_features |-> x.rows_features,
              committed |-> x.committed, start |-> x.start, log |-> x.log]

World(d, l) == [ok |-> TRUE, db |-> d, conn |-> l.conn, lizard |-> lizard,
                commits |-> l.commits, i |-> l.i,
                rows_commit_files |-> l.rows_commit_files, rows_complex |-> l.rows_complex,
                rows_features |-> l.rows_features,
                committed |-> l.committed, start |-> l.start, log |-> l.log]

NoRead == [valid |-> FALSE, rows |-> {}, complete |-> FALSE, last |-> {}]

\* an empty repository, no store file, thresholds t, lizard installed or not
InitEnv(t, lz) ==
    /\ repo = <<>>
    /\ db = EmptyStore
    /\ pc = "idle"
    /\ ix = NoRun
    /\ thr = t
    /\ runs = 0
    /\ own = [prior |-> {}, status |-> "none", complete |-> FALSE, last |-> {}, changes |-> 0]
    /\ seen = NoRead
    /\ lizard = lz
    /\ exit = "none"

InitWith(t) == InitEnv(t, TRUE)

Init == InitWith(CodeThresholds)

\* a developer commits to the repository (between runs of the tool)
GitCommit(pool) ==
    /\ pc = "idle"
    /\ Len(repo) < MaxCommits
    /\ \E t \in pool : repo' = Append(repo, MakeCommit(t, Len(repo) + 1))
    /\ UNCHANGED <<db, pc, ix, thr, runs, own, seen, lizard, exit>>

\* index() up to the commit of the metadata pass
IndexBegin ==
    /\ pc = "idle"
    /\ runs < MaxRuns
    /\ \E x \in {index_begin(db, repo, lizard)} :
          /\ db' = x.db
          /\ ix' = Locals(x)
          /\ pc' = "diff"
    /\ runs' = runs + 1
    /\ UNCHANGED <<repo, thr, own, seen, lizard, exit>>

\* index(): one commit of the diff pass; an exception ends the process and the
\* store file keeps what was committed
IndexCommit ==
    /\ pc = "diff"
    /\ ix.i <= Len(ix.commits)
    /\ \E x \in {index_commit(World(db, ix), thr)} :
          /\ db' = IF x.ok THEN x.db ELSE x.committed
          /\ ix' = IF x.ok THEN Locals(x) ELSE NoRun
          /\ pc' = IF x.ok THEN "diff" ELSE "idle"
          /\ exit' = IF x.ok THEN exit ELSE "error"
    /\ UNCHANGED <<repo, thr, runs, own, seen, lizard>>

\* index(): the final flush, and the return; the store file keeps what was
\* committed
IndexFinal ==
    /\ pc = "diff"
    /\ ix.i > Len(ix.commits)
    /\ \E x \in {index_final(World(db, ix), thr)} :
          /\ db' = x.committed
          /\ exit' = IF x.ok THEN "ok" ELSE "error"
    /\ ix' = NoRun
    /\ pc' = "idle"
    /\ UNCHANGED <<repo, thr, runs, own, seen, lizard>>

\* cli index: indexer.open_repo() raises on a directory that is no repository,
\* before index() is called
OpenRepoFails ==
    /\ pc = "idle"
    /\ exit # "error"
    /\ exit' = "error"
    /\ UNCHANGED <<repo, db, pc, ix, thr, runs, own, seen, lizard>>

\* index(): self.repo.iter_commits("--all") raises; connect, init_db and
\* set_meta have run by then
IterCommitsFails ==
    /\ pc = "idle"
    /\ runs < MaxRuns
    /\ db' = index_open(db)
    /\ runs' = runs + 1
    /\ exit' = "error"
    /\ UNCHANGED <<repo, pc, ix, thr, own, seen, lizard>>

\* index() is killed before the commit of its metadata pass: the store file
\* is untouched, or holds the tables, or the tables and the repo_dir key
IndexKillBegin ==
    /\ pc = "idle"
    /\ runs < MaxRuns
    /\ db' \in {db, init_db(db, connect).db, index_open(db)}
    /\ runs' = runs + 1
    /\ exit' = "killed"
    /\ UNCHANGED <<repo, pc, ix, thr, own, seen, lizard>>

\* index() is killed in its diff pass, at any point of the next commit's
\* iteration or of the final flush: the store file keeps what was committed
IndexKillDiff ==
    /\ pc = "diff"
    /\ LET x == World(db, ix)
       IN db' \in IF ix.i <= Len(ix.commits)
                  THEN flush_points(index_diff(x), thr, FALSE)
                  ELSE flush_points(x, thr, TRUE)
    /\ ix' = NoRun
    /\ pc' = "idle"
    /\ exit' = "killed"
    /\ UNCHANGED <<repo, thr, runs, own, seen, lizard>>

\* compute_ownership(): DELETE FROM ownership, committed
OwnershipDelete ==
    /\ pc = "idle"
    /\ db.initialized
    /\ db' = ownership_delete(db)
    /\ own' = [own EXCEPT !.prior = db.ownership, !.status = "running"]
    /\ pc' = "own_insert"
    /\ UNCHANGED <<repo, ix, thr, runs, seen, lizard, exit>>

\* compute_ownership(): INSERT ... SELECT, committed
OwnershipInsert ==
    /\ pc = "own_insert"
    /\ db' = ownership_insert(db)
    /\ own' = [own EXCEPT !.status = "done",
                          !.complete = @ \/ db'.ownership # {},
                          !.last = db'.ownership,
                          !.changes = Len(db.commit_files)]
    /\ pc' = "idle"
    /\ UNCHANGED <<repo, ix, thr, runs, seen, lizard, exit>>

\* compute_ownership() fails or is killed between its two statements
OwnershipKill ==
    /\ pc = "own_insert"
    /\ own' = [own EXCEPT !.status = "killed"]
    /\ pc' = "idle"
    /\ UNCHANGED <<repo, db, ix, thr, runs, seen, lizard, exit>>

\* a reader on its own connection reads the committed ownership table
ReaderRead ==
    /\ db.initialized
    /\ seen' = [valid |-> TRUE, rows |-> db.ownership, complete |-> own.complete, last |-> own.last]
    /\ seen' # seen
    /\ UNCHANGED <<repo, db, pc, ix, thr, runs, own, lizard, exit>>

\* a developer commits before the tool has ever run
GitCommitFirst(pool) ==
    /\ runs = 0
    /\ GitCommit(pool)

\* index() on its own
NextIndex(pool) ==
    \/ GitCommit(pool)
    \/ IndexBegin
    \/ IndexCommit
    \/ IndexFinal

\* compute_ownership() on its own
NextOwnership ==
    \/ OwnershipDelete
    \/ OwnershipInsert

Next ==
    \/ NextIndex(CommitPool)
    \/ NextOwnership

Spec == Init /\ [][Next]_vars

\* compute_ownership() with a concurrent reader and a kill between its statements
ConcPool ==
    [author : Authors, message : {MsgNone}, diffs : {<<Mod(p, "text")>> : p \in Paths}, stats : {FullStats}]

NextConc ==
    \/ NextIndex(ConcPool)
    \/ NextOwnership
    \/ OwnershipKill
    \/ ReaderRead

SpecConc == Init /\ [][NextConc]_vars

\* index() over deletions, binary blobs, renames and missing stats
DiffPool ==
    [author : {"x@"}, message : {MsgNone},
     diffs : {<<Del("a")>>, <<Mod("a", "binary")>>, <<Add("b", "text")>>, <<Ren("a", "b")>>,
              <<Add("a", "binary"), Mod("b", "text")>>, <<Del("a"), Mod("b", "text")>>},
     stats : {FullStats, EmptyStats, StatsOfA}]

NextDiff == NextIndex(DiffPool)

SpecDiff == Init /\ [][NextDiff]_vars

\* index() under other flush thresholds than the code's
MaxThreshold == 2

ThresholdChoices ==
    {CodeThresholds}
    \cup [commit_files : 1..MaxThreshold, complex : 1..MaxThreshold, features : 1..MaxThreshold]

FlushPool ==
    [author : {"x@"}, message : {MsgFixesBecause}, diffs : TextDiffs, stats : {FullStats}]

InitFlush == \E t \in ThresholdChoices : InitWith(t)

NextFlush == NextIndex(FlushPool)

SpecFlush == InitFlush /\ [][NextFlush]_vars

\* index() with and without the complexity analyzer, over blobs the sampler
\* fails on, under the code's thresholds and under smaller complexity thresholds
LizardPool ==
    [author : {"x@"}, message : {MsgNone},
     diffs : {<<Mod("a", "text")>>, <<Mod("b", "text")>>,
              <<Add("a", "binary"), Mod("b", "text")>>,
              <<Mod("a", "text"), Mod("b", "text")>>,
              <<Mod("b", "unreadable"), Mod("a", "text")>>,
              <<Mod("a", "unparsable"), Mod("b", "text")>>},
     stats : {FullStats}]

LizardThresholds ==
    {CodeThresholds} \cup {[CodeThresholds EXCEPT !.complex = k] : k \in 1..MaxThreshold}

InitLizard == \E t \in LizardThresholds, lz \in BOOLEAN : InitEnv(t, lz)

NextLizard == NextIndex(LizardPool)

SpecLizard == InitLizard /\ [][NextLizard]_vars

\* index() over commit messages with issue references, ticket ids and
\* rationale keywords
FeatPool ==
    [author : {"x@"}, message : Messages, diffs : {<<Mod("a", "text")>>}, stats : {FullStats}]

NextFeat == NextIndex(FeatPool)

SpecFeat == Init /\ [][NextFeat]_vars

\* the index command with a version-control collaborator that may fail
VcsPool ==
    [author : {"x@"}, message : {MsgFixesBecause}, diffs : TextDiffs, stats : {FullStats}]

NextVcs ==
    \/ NextIndex(VcsPool)
    \/ OpenRepoFails
    \/ IterCommitsFails

SpecVcs == Init /\ [][NextVcs]_vars

\* the index command run again and again on a repository that no longer changes
NextRerun ==
    \/ GitCommitFirst(CommitPool)
    \/ IndexBegin
    \/ IndexCommit
    \/ IndexFinal
    \/ NextOwnership

SpecRerun == Init /\ [][NextRerun]_vars

\* index() killed at any point, under the code's and under smaller thresholds
NextKill ==
    \/ NextIndex(FlushPool)
    \/ IndexKillBegin
    \/ IndexKillDiff

SpecKill == InitFlush /\ [][NextKill]_vars

----------------------------------------------------------------------------
(* Properties *)

\* the commit of the repository with hash h
RepoCommit(h) == repo[CHOOSE k \in DOMAIN repo : repo[k].hexsha = h]

\* the commits of the repository the store has a row for, oldest first
IndexedRepo == SelectSeq(repo, LAMBDA c : c.hexsha \in CommitIds(db))

\* the diff entries of a list of commits, as <<hash, entry>>, in list order
RECURSIVE EntriesOf(_)
EntriesOf(cs) ==
    IF cs = <<>> THEN <<>>
    ELSE [i \in DOMAIN Head(cs).diffs |-> <<Head(cs).hexsha, Head(cs).diffs[i]>>] \o EntriesOf(Tail(cs))

\* the path a stored change row was computed for, by the rule of the spec
RowPath(r) == IF r.change_type = "D" THEN r.old_path ELSE r.new_path

\* the diff entries of the row's commit that the row describes
RowEntries(r) ==
    {e \in Range(RepoCommit(r.commit_id).diffs) :
        e.change_type = r.change_type /\ e.a_path = r.old_path /\ e.b_path = r.new_path}

RECURSIVE SumCommits(_)
SumCommits(S) ==
    IF S = {} THEN 0
    ELSE LET o == CHOOSE x \in S : TRUE IN o.commits + SumCommits(S \ {o})

\* the rows of the store's tables but for rowids of complexity
Tables(d) ==
    [commits |-> d.commits, files |-> d.files, commit_files |-> d.commit_files,
     features |-> d.features,
     complexity |-> {[file_id |-> x.file_id, commit_id |-> x.commit_id, nloc |-> x.nloc,
                      ccn |-> x.ccn, functions |-> x.functions] : x \in Range(d.complexity)}]

\* C1, state part: no two commits rows share a hash, every row is the
\* repository's commit of that hash, and once the metadata pass of a run has
\* committed every commit of the run has its row
C1_CommitRows ==
    /\ \A i, j \in DOMAIN db.commits : db.commits[i].id = db.commits[j].id => i = j
    /\ \A i \in DOMAIN db.commits :
          \E k \in DOMAIN repo :
              /\ repo[k].hexsha = db.commits[i].id
              /\ repo[k].author_email = db.commits[i].author_email
              /\ repo[k].authored_date = db.commits[i].authored_date
              /\ repo[k].message = db.commits[i].message
    /\ pc = "diff" => \A k \in DOMAIN ix.commits : ix.commits[k].hexsha \in CommitIds(db)

\* C1, step part: no step removes or alters a stored commits row
C1_CommitRowsKept ==
    \A i \in DOMAIN db.commits : i \in DOMAIN db'.commits /\ db'.commits[i] = db.commits[i]

\* C1: after any number of index() runs the commits table holds exactly one
\* row per distinct commit hash; a re-run adds no second row for a stored hash
\* and never removes or alters the stored row.
C1_OneRowPerHash == []C1_CommitRows /\ [][C1_CommitRowsKept]_vars

\* C1 witness: a re-run has passed its metadata pass over commits that an
\* earlier run already indexed
C1_Witness ==
    /\ pc = "diff"
    /\ runs >= 2
    /\ ix.commits # <<>>
    /\ Len(db.commits) = Len(ix.commits)
    /\ \A k \in DOMAIN ix.commits :
          \E i \in DOMAIN db.commit_files : db.commit_files[i].commit_id = ix.commits[k].hexsha

\* the ownership rows of file f, and the distinct commits of its change rows
OwnershipOf(f) == {o \in db.ownership : o.file_id = f}
ChangedBy(f) == {db.commit_files[i].commit_id : i \in {j \in DOMAIN db.commit_files : db.commit_files[j].file_id = f}}

\* C2: when compute_ownership has completed (and no change row was written
\* since), for every file id the sum of ownership.commits over its authors
\* equals the number of distinct commit ids among its commit_files rows.
C2_OwnershipTotals ==
    (own.status = "done" /\ own.changes = Len(db.commit_files)) =>
        \A f \in {db.commit_files[i].file_id : i \in DOMAIN db.commit_files}
                 \cup {o.file_id : o \in db.ownership} :
            SumCommits(OwnershipOf(f)) = Cardinality(ChangedBy(f))

\* C2 witness: ownership is computed over a store that a re-index run has
\* appended duplicate change rows to, for a file with two authors
C2_Witness ==
    /\ own.status = "done"
    /\ own.changes = Len(db.commit_files)
    /\ \E i, j \in DOMAIN db.commit_files : i # j /\ db.commit_files[i] = db.commit_files[j]
    /\ \E f \in {o.file_id : o \in db.ownership} : Cardinality(OwnershipOf(f)) = 2

\* C3: once a first aggregation has completed with a non-empty result, a
\* concurrent reader never reads an empty or partly cleared ownership table:
\* it reads the table of the latest completed aggregation.
C3_ReaderSeesCompleteTable ==
    (seen.valid /\ seen.complete) => (seen.rows # {} /\ seen.rows = seen.last)

\* C4: if compute_ownership is killed after it has started, the committed
\* ownership table is the table from before the run.
C4_KillKeepsPriorTable ==
    own.status = "killed" => db.ownership = own.prior

\* C5: a batch with a row that names an unknown commit or file fails, so no
\* change, feature or complexity row of the store names a commit absent from
\* commits or a file absent from files.
C5_NoDanglingRow ==
    /\ \A i \in DOMAIN db.commit_files :
          ~DanglingCommit(db, db.commit_files[i]) /\ ~DanglingFile(db, db.commit_files[i])
    /\ \A i \in DOMAIN db.complexity :
          ~DanglingCommit(db, db.complexity[i]) /\ ~DanglingFile(db, db.complexity[i])
    /\ \A i \in DOMAIN db.features : ~DanglingCommit(db, db.features[i])

\* C6: at every point of the diff pass, for every path, upsert_file on the
\* run's connection returns the id of the one files row with that path.
C6_UpsertReturnsIdOfPath ==
    pc = "diff" =>
        \A p \in Paths :
            LET u == upsert_file(db, ix.conn, p)
                hits == {i \in DOMAIN u.db.files : u.db.files[i].path = p}
            IN Cardinality(hits) = 1 /\ \A i \in hits : u.db.files[i].id = u.id

\* C7: after a complete index() run on a fresh store there is exactly one
\* commit_files row per diff entry of every commit, and the files row of each
\* row's file_id has the entry's effective path.
C7_ChangeRowsMatchEntries ==
    (pc = "idle" /\ runs = 1) =>
        LET entries == EntriesOf(iter_commits(IndexedRepo))
        IN /\ Len(db.commit_files) = Len(entries)
           /\ \A i \in DOMAIN db.commit_files :
                 LET r == db.commit_files[i]
                 IN /\ r.commit_id = entries[i][1]
                    /\ r.change_type = entries[i][2].change_type
                    /\ r.old_path = entries[i][2].a_path
                    /\ r.new_path = entries[i][2].b_path
                    /\ \E k \in DOMAIN db.files :
                          db.files[k].id = r.file_id /\ db.files[k].path = RowPath(r)

\* the change rows written or buffered so far
AllChangeRows == Range(db.commit_files) \cup Range(ix.rows_commit_files)

\* C8: for a 'D' entry the path used for the line counts and for the file id
\* is a_path, for any other entry it is b_path; a path without stats gives 0
\* and 0.
C8_EffectivePath ==
    \A r \in AllChangeRows :
        LET c == RepoCommit(r.commit_id)
            p == IF r.change_type = "D" THEN r.old_path ELSE r.new_path
        IN /\ r.additions = (IF p \in DOMAIN c.stats THEN c.stats[p].insertions ELSE 0)
           /\ r.deletions = (IF p \in DOMAIN c.stats THEN c.stats[p].deletions ELSE 0)
           /\ p \in Paths
           /\ \E k \in DOMAIN db.files : db.files[k].path = p

\* C8 witness: the store holds a deletion row with the line counts of its
\* a_path, a rename row with the line counts of its b_path, and a row of a
\* path without stats
C8_Witness ==
    /\ \E r \in Range(db.commit_files) :
          r.change_type = "D" /\ r.new_path = NoPath /\ r.deletions = FullStats[r.old_path].deletions
    /\ \E r \in Range(db.commit_files) :
          r.change_type = "R" /\ r.old_path # r.new_path /\ r.additions = FullStats[r.new_path].insertions
    /\ \E r \in Range(db.commit_files) :
          RowPath(r) \notin DOMAIN RepoCommit(r.commit_id).stats /\ r.additions = 0 /\ r.deletions = 0

\* C9: no 'D' row is binary, every row of a binary post-change blob is
\* binary, and no complexity row exists for a (file, commit) pair whose
\* change in that commit is a deletion or has a binary post-change blob.
C9_BinaryAndComplexity ==
    /\ \A r \in AllChangeRows : r.change_type = "D" => r.is_binary = 0
    /\ \A r \in AllChangeRows :
          \A e \in RowEntries(r) : is_binary_blob(e.b_blob) => r.is_binary = 1
    /\ \A x \in Range(db.complexity) :
          \A e \in Range(RepoCommit(x.commit_id).diffs) :
              select_file_id(db, RowPath([change_type |-> e.change_type, old_path |-> e.a_path,
                                          new_path |-> e.b_path])) = x.file_id
              => (e.change_type # "D" /\ ~is_binary_blob(e.b_blob))

\* C10: a complete index() run on a fresh store leaves the same commits,
\* files, commit_files, complexity and features under every choice of flush
\* thresholds.
C10_ThresholdsDoNotMatter ==
    (pc = "idle" /\ runs = 1 /\ Len(db.commits) = Len(repo)) =>
        \A t \in ThresholdChoices : Tables(db) = Tables(index(EmptyStore, repo, t, lizard).db)

\* the id of the files row of a diff entry's effective path
EntryFileId(d, e) == select_file_id(d, path_eff(e))

\* whether the sampler's try block raises for the entry: the blob cannot be
\* read or the analyzer fails on its text
SampleRaises(e) == wants_complexity(e) /\ e.b_blob \in {"unreadable", "unparsable"}

\* whether the installed analyzer samples the entry
SampleSucceeds(e) == wants_complexity(e) /\ e.b_blob \notin {"unreadable", "unparsable"}

\* one complete run on a fresh store has indexed the whole repository
OneCompleteRun == pc = "idle" /\ exit = "ok" /\ runs = 1 /\ Len(db.commits) = Len(repo)

\* C11: a complete index() run without the analyzer ends normally, writes no
\* complexity row, and leaves the commits, commit_files and features tables
\* that a run with the analyzer leaves on the same repository.
C11_AnalyzerAbsentSameTables ==
    ~lizard =>
        /\ exit # "error"
        /\ db.complexity = <<>>
        /\ OneCompleteRun =>
              LET w == index(EmptyStore, repo, thr, TRUE).db
              IN /\ db.commits = w.commits
                 /\ db.commit_files = w.commit_files
                 /\ db.features = w.features

\* C12: when the blob read or the analyzer raises for one entry of a commit,
\* the run still completes, the entry's change row is written, no complexity
\* row is written for the entry's (file, commit) pair, and every entry whose
\* analysis succeeds has its complexity row.
C12_RaiseSkipsOnePair ==
    /\ lizard => exit # "error"
    /\ (lizard /\ OneCompleteRun /\ \E c \in Range(repo) : \E e \in Range(c.diffs) : SampleRaises(e)) =>
          /\ Len(db.commit_files) = Len(EntriesOf(iter_commits(repo)))
          /\ \A k \in DOMAIN repo : \A j \in DOMAIN repo[k].diffs :
                LET c == repo[k]
                    e == c.diffs[j]
                    rows == {x \in Range(db.complexity) :
                                x.commit_id = c.hexsha /\ x.file_id = EntryFileId(db, e)}
                    r == analyze_code_string(TRUE, path_eff(e), e.b_blob)
                IN /\ \E i \in DOMAIN db.commit_files :
                         /\ db.commit_files[i].commit_id = c.hexsha
                         /\ db.commit_files[i].change_type = e.change_type
                         /\ db.commit_files[i].old_path = e.a_path
                         /\ db.commit_files[i].new_path = e.b_path
                   /\ SampleRaises(e) => rows = {}
                   /\ SampleSucceeds(e) =>
                         \E x \in rows : /\ x.nloc = r.nloc
                                         /\ x.ccn = SumSeq(r.function_list)
                                         /\ x.functions = Len(r.function_list)

\* the rows of a sequence of feature rows that belong to commit c
RowsOfCommit(rows, c) == SelectSeq(rows, LAMBDA r : r.commit_id = c.hexsha)

\* the references of the rows of one type, in order
ReferencesOfType(rows, type) ==
    LET sel == SelectSeq(rows, LAMBDA r : r.type = type)
    IN [i \in DOMAIN sel |-> sel[i].reference]

\* the captured reference of each match of pattern n in the message, in order
CapturedBy(n, message) ==
    LET ms == finditer(n, message, 1)
    IN [i \in DOMAIN ms |-> IF n = 3 THEN ms[i].groupdict["jira"] ELSE ms[i].groupdict["num"]]

\* rows holds, for commit c, one row per match of each pattern and one marker
\* row exactly when the message has a rationale keyword
FeatureRowsRight(rows, c) ==
    LET mine == RowsOfCommit(rows, c)
        markers == SelectSeq(mine, LAMBDA r : r.type = "why_marker")
        matches == SumSeq([n \in DOMAIN FEATURE_PATTERNS |-> Len(finditer(n, c.message, 1))])
    IN /\ \A n \in DOMAIN FEATURE_PATTERNS :
             ReferencesOfType(mine, FEATURE_PATTERNS[n]) = CapturedBy(n, c.message)
       /\ Len(markers) = (IF has_why_keyword(c.message) THEN 1 ELSE 0)
       /\ Len(mine) = matches + Len(markers)

\* C13: for every commit one index() run has processed, the feature rows
\* emitted for it are one row per match of each reference pattern, with the
\* pattern and the captured reference, plus one why_marker row exactly when
\* the lower-cased message contains a rationale keyword, however many
\* keywords or repetitions it contains.
C13_FeatureRows ==
    /\ pc = "diff" =>
          \A k \in 1..(ix.i - 1) : FeatureRowsRight(ix.log.rows_features, ix.commits[k])
    /\ OneCompleteRun => \A c \in Range(repo) : FeatureRowsRight(db.features, c)

\* C13 witness: a complete run has stored, for the commit with the message
\* "Fixes #42 - add login throttle", the one row of the first pattern with
\* reference 42 and no marker, and for the commit with "RFC-12 why why" the
\* ticket row and a single marker
C13_Witness ==
    /\ OneCompleteRun
    /\ \E c \in Range(repo) :
          /\ c.message = MsgScenario
          /\ RowsOfCommit(db.features, c)
               = <<[commit_id |-> c.hexsha, type |-> FEATURE_PATTERNS[1], reference |-> <<"4", "2">>]>>
    /\ \E c \in Range(repo) :
          /\ c.message = MsgRfcWhyWhy
          /\ RowsOfCommit(db.features, c)
               = <<[commit_id |-> c.hexsha, type |-> FEATURE_PATTERNS[3],
                    reference |-> <<"R", "F", "C", "-", "1", "2">>],
                   [commit_id |-> c.hexsha, type |-> "why_marker", reference |-> <<"1">>]>>

\* C14: when the repository cannot be opened or enumerating its commits
\* raises, the index command ends without a write to the store: no table is
\* created and no row of any table is written or changed.
C14_VcsFailureWritesNothing ==
    [][(OpenRepoFails \/ IterCommitsFails) => db' = db]_vars

\* the number of positions of a sequence that hold a value satisfying P
Count(seq, P(_)) == Cardinality({i \in DOMAIN seq : P(seq[i])})

\* whether change row r describes diff entry e of commit c
Describes(r, c, e) ==
    /\ r.commit_id = c.hexsha
    /\ r.change_type = e.change_type
    /\ r.old_path = e.a_path
    /\ r.new_path = e.b_path

\* the feature rows one run emits for a sequence of commits
RECURSIVE FeaturesOf(_)
FeaturesOf(cs) == IF cs = <<>> THEN <<>> ELSE feature_rows(Head(cs)) \o FeaturesOf(Tail(cs))

\* C15: re-running index() on a populated store never fails and appends
\* without de-duplication: after k complete runs over an unchanged
\* repository, commit_files holds k rows for each diff entry and features
\* holds k copies of each feature row of a single run.
C15_RerunAppends ==
    /\ exit # "error"
    /\ pc = "idle" =>
          LET one == FeaturesOf(iter_commits(repo))
          IN /\ Len(db.commit_files) = runs * Len(EntriesOf(repo))
             /\ \A c \in Range(repo) : \A e \in Range(c.diffs) :
                   Count(db.commit_files, LAMBDA r : Describes(r, c, e))
                     = runs * Count(c.diffs, LAMBDA x : x = e)
             /\ Len(db.features) = runs * Len(one)
             /\ \A f \in Range(one) :
                   Count(db.features, LAMBDA r : r = f) = runs * Count(one, LAMBDA r : r = f)

\* C15 witness: two complete runs over a repository with a commit of two diff
\* entries have left each change row and each feature row twice
C15_Witness ==
    /\ pc = "idle"
    /\ exit = "ok"
    /\ runs = 2
    /\ \E c \in Range(repo) : Len(c.diffs) = 2
    /\ \A i \in DOMAIN db.commit_files :
          \E j \in DOMAIN db.commit_files :
              /\ j # i
              /\ db.commit_files[j].commit_id = db.commit_files[i].commit_id
              /\ db.commit_files[j].old_path = db.commit_files[i].old_path
    /\ \A i \in DOMAIN db.features : Count(db.features, LAMBDA r : r = db.features[i]) = 2

\* the complexity rows of the (file, commit) pair of entry e of commit c
SamplesOf(c, e) ==
    {x \in Range(db.complexity) : x.commit_id = c.hexsha /\ x.file_id = EntryFileId(db, e)}

\* C16: after any sequence of complete index() runs, complexity holds exactly
\* one row for each (effective path, commit) pair whose analysis succeeded,
\* keyed by the id of the path's files row and carrying the values of the
\* analysis, and no other row: no sample is replaced by, or stored under the
\* key of, the sample of another path of the same commit.
C16_OneSamplePerPair ==
    (pc = "idle" /\ exit = "ok" /\ lizard) =>
        /\ \A c \in Range(IndexedRepo) : \A e \in Range(c.diffs) :
              SampleSucceeds(e) =>
                  LET r == analyze_code_string(TRUE, path_eff(e), e.b_blob)
                  IN /\ Cardinality(SamplesOf(c, e)) = 1
                     /\ \A x \in SamplesOf(c, e) :
                           /\ x.nloc = r.nloc
                           /\ x.ccn = SumSeq(r.function_list)
                           /\ x.functions = Len(r.function_list)
        /\ \A x \in Range(db.complexity) :
              \E c \in Range(IndexedRepo) : \E e \in Range(c.diffs) :
                  SampleSucceeds(e) /\ x \in SamplesOf(c, e)

\* the committed store: what the store file holds if the process dies now
Committed == IF pc = "diff" THEN ix.committed ELSE db

\* whether sequence p is a prefix of sequence q
IsPrefix(p, q) == Len(p) <= Len(q) /\ SubSeq(q, 1, Len(p)) = p

\* C17, state part: the committed store has no change, feature or complexity
\* row of an unknown commit, no change or complexity row of an unknown file,
\* and during the diff pass it has the commit row of every commit of the run
C17_CommittedRows ==
    /\ \A r \in Range(Committed.commit_files) :
          ~DanglingCommit(Committed, r) /\ ~DanglingFile(Committed, r)
    /\ \A r \in Range(Committed.complexity) :
          ~DanglingCommit(Committed, r) /\ ~DanglingFile(Committed, r)
    /\ \A r \in Range(Committed.features) : ~DanglingCommit(Committed, r)
    /\ pc = "diff" => \A k \in DOMAIN ix.commits : ix.commits[k].hexsha \in CommitIds(Committed)

\* C17, step part: a kill loses no row that was committed before it
C17_KillKeepsCommitted ==
    (IndexKillBegin \/ IndexKillDiff) =>
        /\ IsPrefix(Committed.commits, db'.commits)
        /\ IsPrefix(Committed.files, db'.files)
        /\ IsPrefix(Committed.commit_files, db'.commit_files)
        /\ IsPrefix(Committed.features, db'.features)
        /\ \A x \in Range(Committed.complexity) :
              \E y \in Range(db'.complexity) : y.file_id = x.file_id /\ y.commit_id = x.commit_id

\* C17: wherever index() is killed, the committed store is uncorrupted: its
\* change, feature and complexity rows name commits that are committed (the
\* metadata pass commits every commit row before the diff pass writes), its
\* change and complexity rows name files that are committed, and only rows
\* still buffered or uncommitted are lost.
C17_KillLeavesStoreSound == []C17_CommittedRows /\ [][C17_KillKeepsCommitted]_vars

\* the rows of a table that were written since the diff pass began
WrittenSince(table, n) == SubSeq(table, n + 1, Len(table))

\* the first rows of a log: those that are no longer in the buffer
Flushed(log, buffer) == SubSeq(log, 1, Len(log) - Len(buffer))

\* C18, state part: at every commit boundary of the diff pass each appended
\* row is either written once or still buffered once, in the order of
\* appending, and every written row is committed
C18_WrittenOrBuffered ==
    pc = "diff" =>
        /\ WrittenSince(db.commit_files, ix.start.commit_files) \o ix.rows_commit_files
             = ix.log.rows_commit_files
        /\ WrittenSince(db.features, ix.start.features) \o ix.rows_features
             = ix.log.rows_features
        /\ Flushed(ix.log.rows_complex, ix.rows_complex) \o ix.rows_complex = ix.log.rows_complex
        /\ db.complexity
             = insert_complexity_rows(ix.start.complexity, Flushed(ix.log.rows_complex, ix.rows_complex))
        /\ ix.committed.commit_files = db.commit_files
        /\ ix.committed.features = db.features
        /\ ix.committed.complexity = db.complexity

\* C18, step part: a periodic flush that writes a buffer empties it, and the
\* final flush leaves every appended row of the run written once and committed
C18_FlushStep ==
    /\ IndexCommit =>
          /\ db'.commit_files # db.commit_files => ix'.rows_commit_files = <<>>
          /\ db'.features # db.features => ix'.rows_features = <<>>
          /\ db'.complexity # db.complexity => ix'.rows_complex = <<>>
    /\ IndexFinal =>
          /\ exit' = "ok"
          /\ WrittenSince(db'.commit_files, ix.start.commit_files) = ix.log.rows_commit_files
          /\ WrittenSince(db'.features, ix.start.features) = ix.log.rows_features
          /\ db'.complexity = insert_complexity_rows(ix.start.complexity, ix.log.rows_complex)

\* C18: when index() runs to completion, every row appended to the change,
\* complexity or feature buffer has been written and committed exactly once:
\* a periodic flush empties the buffer it wrote, and the final flush writes
\* only the rows buffered since.
C18_EveryRowWrittenOnce == []C18_WrittenOrBuffered /\ [][C18_FlushStep]_vars

\* C18 witness: under a change-row threshold of 2, a complete run over a newest
\* commit of two entries and an older commit of one has written three change
\* rows: two by the periodic flush, one by the final flush
C18_Witness ==
    /\ OneCompleteRun
    /\ thr.commit_files = 2
    /\ Len(repo) = 2
    /\ Len(repo[2].diffs) = 2
    /\ Len(repo[1].diffs) = 1
    /\ Len(db.commit_files) = 3
    /\ Len(db.features) = 4

\* the (file_id, author_email) groups of commit_files JOIN commits
JoinGroups(d) ==
    {<<d.commit_files[i].file_id, commit_of(d, d.commit_files[i]).author_email>> :
        i \in {j \in DOMAIN d.commit_files : d.commit_files[j].commit_id \in CommitIds(d)}}

\* the primary key of an ownership row
OwnershipKey(o) == <<o.file_id, o.author_email>>

\* C19, one completion of compute_ownership: the table holds one row per group
\* of the join and no other row, it is what the same call yields from an empty
\* and from any other previous table, and a call that follows a completed call
\* with no change row appended in between leaves the table as it was
C19_Recomputed ==
    OwnershipInsert =>
        /\ {OwnershipKey(o) : o \in db'.ownership} = JoinGroups(db)
        /\ Cardinality(db'.ownership) = Cardinality(JoinGroups(db))
        /\ \A prev \in {{}, own.prior, own.last} :
              db'.ownership = compute_ownership([db EXCEPT !.ownership = prev]).ownership
        /\ (own.last = own.prior /\ own.changes = Len(db.commit_files)) =>
              db'.ownership = own.prior

\* C19: the result of compute_ownership depends only on commit_files and
\* commits, never on the previous ownership rows: one row per (file_id,
\* author_email) group of the join and no other row, so a second call with no
\* index run in between leaves the table unchanged.
C19_OwnershipRecomputed == [][C19_Recomputed]_vars

\* C19 witness: after the only index run, compute_ownership has completed a
\* second time over a table of two or more rows and left it as it was
C19_Witness ==
    /\ pc = "idle"
    /\ runs = 1
    /\ own.status = "done"
    /\ own.prior # {}
    /\ Cardinality(own.prior) >= 2
    /\ db.ownership = own.prior

\* C19 witness: compute_ownership has completed over a table that an index
\* run in between had made stale, and replaced its rows
C19_WitnessStale ==
    /\ pc = "idle"
    /\ runs = 2
    /\ own.status = "done"
    /\ own.prior # {}
    /\ db.ownership # own.prior
    /\ {OwnershipKey(o) : o \in db.ownership} = {OwnershipKey(o) : o \in own.prior}

\* the ownership rows after one complete index() run into an empty store
OwnershipAfterOneRun == compute_ownership(index(EmptyStore, repo, thr, lizard).db).ownership

\* an ownership row with its line sums multiplied by k
TimesLines(o, k) ==
    [o EXCEPT !.lines_added = k * @, !.lines_deleted = k * @]

\* C20: for an unchanged repository, compute_ownership after k complete index()
\* runs into the same store yields for every (file, author) the commits,
\* first_commit and last_commit of one run, and k times the lines_added and
\* lines_deleted of one run.
C20_LinesScaleWithRuns ==
    (/\ pc = "idle"
     /\ exit = "ok"
     /\ runs >= 1
     /\ own.status = "done"
     /\ own.changes = Len(db.commit_files)
     /\ Len(db.commit_files) = runs * Len(EntriesOf(repo)))
    => db.ownership = {TimesLines(o, runs) : o \in OwnershipAfterOneRun}

====
